---------------------------- MODULE Spec2Model ----------------------------
(***************************************************************************)
(* MergeMate Minimal API (src/api.py): one request at a time through the   *)
(* two endpoints POST /v1/review and POST /v1/file.  Every request owns a  *)
(* temporary workspace, drives the git CLI through run() and, for a        *)
(* review, collects, scores, sorts and caps the relevant files.            *)
(*                                                                         *)
(* Text the code manipulates (paths, file lines, keywords, stderr) is a    *)
(* sequence of one-character strings; a pathlib.Path is the sequence of    *)
(* its parts.  Scores are floats that are always multiples of 0.5 in the   *)
(* code; the model keeps them in units of 0.5 (score 1.0 is 2, the 0.5     *)
(* extension bonus is 1, one keyword match is 2).                          *)
(***************************************************************************)
EXTENDS Integers, Sequences, FiniteSets, TLC

VARIABLES
    pc,             \* position of the request inside review / get_file
    endpoint,       \* "none", "review" or "file"
    req,            \* the validated request model
    fs,             \* the host file system: Path -> [kind, size, lines]
    remote,         \* names of the files the remote holds at req.ref
    steps,          \* every run() call so far, in order, with its outcome
    err,            \* stderr of the literal-ref fetch (shallow_clone's err)
    err2,           \* stderr of the refs/heads/ fetch (shallow_clone's err2)
    changed_files,  \* review's changed_files: None or the diff's path list
    results,        \* collect_relevant's results list before the sort
    response        \* what the request returned, or the HTTPException

vars == <<pc, endpoint, req, fs, remote, steps, err, err2, changed_files,
          results, response>>

-----------------------------------------------------------------------------
(* Bounds of the model *)

\* max_files is drawn from 1..MaxCap (the code allows 1..100)
MaxCap == 2

\* number of lines of the long fixture file l.c (every line matches "t")
LongLen == 12

\* largest number of paths a name-only diff reports
MaxChanged == 2

-----------------------------------------------------------------------------
(* Program constants *)

GIT_TIMEOUT == 60

MAX_REPO_SIZE_MB == 300

\* bytes per MiB, the 1024 * 1024 of du_mb and read_lines_safe
MiB == 1048576

\* keyword_score's hard-coded context: max(1, i - 5), min(len(lines), i + 5)
SNIPPET_CONTEXT == 5

\* keyword_score's matches[:10]
MAX_SNIPPETS == 10

DEFAULT_INCLUDE_EXTS ==
    {<<".","p","y">>, <<".","j","s">>, <<".","t","s">>, <<".","t","s","x">>,
     <<".","j","s","x">>, <<".","j","a","v","a">>, <<".","g","o">>, <<".","r","b">>,
     <<".","r","s">>, <<".","c","p","p">>, <<".","c","c">>, <<".","c">>,
     <<".","h">>, <<".","h","p","p">>, <<".","c","s">>, <<".","k","t">>,
     <<".","s","w","i","f","t">>, <<".","p","h","p">>, <<".","s","c","a","l","a">>, <<".","m">>,
     <<".","m","m">>, <<".","s","h">>, <<".","b","a","s","h">>, <<".","p","s","1">>,
     <<".","y","m","l">>, <<".","y","a","m","l">>, <<".","j","s","o","n">>, <<".","t","o","m","l">>,
     <<".","g","r","a","d","l","e">>, <<".","m","d">>}

BINARY_EXTS ==
    {<<".","p","n","g">>, <<".","j","p","g">>, <<".","j","p","e","g">>, <<".","g","i","f">>,
     <<".","p","d","f">>, <<".","z","i","p">>, <<".","g","z">>, <<".","b","z","2">>,
     <<".","7","z">>, <<".","t","a","r">>, <<".","w","o","f","f">>, <<".","w","o","f","f","2">>,
     <<".","t","t","f">>}

SKIP_DIRS ==
    {<<".","g","i","t">>, <<"n","o","d","e","_","m","o","d","u","l","e","s">>, <<"d","i","s","t">>,
     <<"b","u","i","l","d">>, <<".","v","e","n","v">>, <<"v","e","n","v">>,
     <<".","t","o","x">>, <<".","i","d","e","a">>, <<".","v","s","c","o","d","e">>,
     <<"t","a","r","g","e","t">>, <<"o","u","t">>}

\* the characters of the model in code-point order
Alphabet ==
    <<" ", ".", "/", "0", "1", "2", "3", "4", "5", "6", "7", "8", "9", "C", "H", "T", "X", "_", "a", "b", "c", "d", "e", "f", "g", "h", "i", "j", "k", "l", "m", "n", "o", "p", "q", "r", "s", "t", "u", "v", "w", "x", "y", "z">>

-----------------------------------------------------------------------------
(* Python values *)

\* Optional[...]: None, or a present value
None == [some |-> FALSE, val |-> <<>>]

Some(v) == [some |-> TRUE, val |-> v]

\* truthiness of an Optional[List] / Optional[str]: None and empty are falsy
Truthy(o) == o.some /\ Len(o.val) > 0

Min(a, b) == IF a < b THEN a ELSE b

Max(a, b) == IF a > b THEN a ELSE b

\* ord(c), up to an order-preserving renumbering
Ord(c) == CHOOSE i \in 1..Len(Alphabet) : Alphabet[i] = c

\* s < t on str: lexicographic by code point
RECURSIVE StrLess(_, _)
StrLess(s, t) ==
    IF t = <<>> THEN FALSE
    ELSE IF s = <<>> THEN TRUE
    ELSE IF Ord(Head(s)) # Ord(Head(t)) THEN Ord(Head(s)) < Ord(Head(t))
    ELSE StrLess(Tail(s), Tail(t))

\* c.lower()
LowerChar(c) ==
    CASE c = "C" -> "c"
      [] c = "H" -> "h"
      [] c = "T" -> "t"
      [] c = "X" -> "x"
      [] OTHER -> c

\* s.lower()
Lower(s) == [i \in 1..Len(s) |-> LowerChar(s[i])]

\* s.startswith(prefix)
StartsWith(s, prefix) ==
    /\ Len(prefix) <= Len(s)
    /\ SubSeq(s, 1, Len(prefix)) = prefix

\* needle in s
Contains(s, needle) ==
    \E i \in 1..(Len(s) - Len(needle) + 1) :
        SubSeq(s, i, i + Len(needle) - 1) = needle

\* s.strip(): leading and trailing white space removed
RECURSIVE LStrip(_)
LStrip(s) == IF s # <<>> /\ Head(s) = " " THEN LStrip(Tail(s)) ELSE s

RECURSIVE RStrip(_)
RStrip(s) ==
    IF s # <<>> /\ s[Len(s)] = " " THEN RStrip(SubSeq(s, 1, Len(s) - 1)) ELSE s

Strip(s) == RStrip(LStrip(s))

-----------------------------------------------------------------------------
(* pathlib *)

\* s.split("/")
RECURSIVE SplitSlash(_, _)
SplitSlash(s, cur) ==
    IF s = <<>> THEN <<cur>>
    ELSE IF Head(s) = "/" THEN <<cur>> \o SplitSlash(Tail(s), <<>>)
    ELSE SplitSlash(Tail(s), Append(cur, Head(s)))

\* the parts of a path string: empty and "." components are dropped
PathParts(s) ==
    SelectSeq(SplitSlash(s, <<>>), LAMBDA c : c # <<>> /\ c # <<".">>)

Root == <<<<"/">>>>

\* Path(s) for an absolute s
AbsPath(s) == Root \o PathParts(s)

\* base / s: an absolute s replaces base
PathJoin(base, s) ==
    IF s # <<>> /\ Head(s) = "/" THEN AbsPath(s) ELSE base \o PathParts(s)

\* Path.resolve() on a tree without symbolic links: ".." steps up, and the
\* parent of the root is the root
RECURSIVE ResolveParts(_, _)
ResolveParts(done, todo) ==
    IF todo = <<>> THEN done
    ELSE IF Head(todo) = <<".", ".">>
    THEN ResolveParts(IF Len(done) > 1 THEN SubSeq(done, 1, Len(done) - 1)
                      ELSE done, Tail(todo))
    ELSE ResolveParts(Append(done, Head(todo)), Tail(todo))

Resolve(p) == ResolveParts(Root, Tail(p))

\* "/".join(parts)
RECURSIVE JoinSlash(_)
JoinSlash(parts) ==
    IF parts = <<>> THEN <<>>
    ELSE IF Len(parts) = 1 THEN parts[1]
    ELSE parts[1] \o <<"/">> \o JoinSlash(Tail(parts))

\* str(p) of an absolute path
PathStr(p) == <<"/">> \o JoinSlash(Tail(p))

\* p.relative_to(base).as_posix(), for p below base
RelPosix(p, base) == JoinSlash(SubSeq(p, Len(base) + 1, Len(p)))

\* index of the last "." of a name, 0 when there is none
RECURSIVE RFindDot(_, _)
RFindDot(name, i) ==
    IF i = 0 THEN 0 ELSE IF name[i] = "." THEN i ELSE RFindDot(name, i - 1)

\* p.suffix: the last dot-extension of the final part, "" for a leading or
\* trailing dot
Suffix(p) ==
    LET name == p[Len(p)]
        i == RFindDot(name, Len(name))
    IN IF 1 < i /\ i < Len(name) THEN SubSeq(name, i, Len(name)) ELSE <<>>

\* whether p lies below base (or is base), part by part
IsUnder(p, base) ==
    /\ Len(p) >= Len(base)
    /\ SubSeq(p, 1, Len(base)) = base

-----------------------------------------------------------------------------
(* The host file system and the remote repository *)

File(size, lines) == [kind |-> "file", size |-> size, lines |-> lines]

Dir == [kind |-> "dir", size |-> 0, lines |-> <<>>]

\* the request's tempfile.TemporaryDirectory(prefix="mergemate_")
WorkDir == AbsPath(<<"/", "t", "/", "w">>)

\* what the host holds outside any workspace: the temporary directory /t,
\* a file /t/s in it, and a sibling directory /t/wx (its name extends the
\* workspace's) holding a file /t/wx/s
HostFs ==
    (Root :> Dir)
    @@ (AbsPath(<<"/", "t">>) :> Dir)
    @@ (AbsPath(<<"/", "t", "/", "s">>) :> File(2, <<<<"s">>>>))
    @@ (AbsPath(<<"/", "t", "/", "w", "x">>) :> Dir)
    @@ (AbsPath(<<"/", "t", "/", "w", "x", "/", "s">>) :> File(2, <<<<"s">>>>))

\* the files a remote may hold at the requested ref, by path
RepoFiles ==
    (<<"a", ".", "c">> :> File(6, <<<<"t">>, <<"x">>, <<"T">>>>))
    @@ (<<"d", ".", "c">> :> File(6, <<<<"T">>, <<"x">>, <<"t">>>>))
    @@ (<<"b", ".", "x">> :> File(5, <<<<"x", "t">>, <<"x">>>>))
    @@ (<<"o", "u", "t", "/", "c", ".", "c">> :> File(2, <<<<"t">>>>))
    @@ (<<"e", ".", "c">> :> File(0, <<>>))
    @@ (<<"b", "i", "g", ".", "c">> :> File(MiB + 1, <<<<"t">>>>))
    @@ (<<"i", ".", "g", "z">> :> File(3, <<<<"t">>>>))
    @@ (<<"l", ".", "c">> :> File(2 * LongLen, [i \in 1..LongLen |-> <<"t">>]))
    @@ (<<"h", ".", "x">> :> File(MAX_REPO_SIZE_MB * MiB + 1, <<<<"x">>>>))
    @@ (<<"s", "u", "b">> :> Dir)

\* the trees a remote may hold at the requested ref
Trees ==
    {{},
     {<<"a", ".", "c">>, <<"b", ".", "x">>},
     {<<"a", ".", "c">>, <<"d", ".", "c">>, <<"b", ".", "x">>, <<"e", ".", "c">>},
     {<<"a", ".", "c">>, <<"o", "u", "t", "/", "c", ".", "c">>,
      <<"i", ".", "g", "z">>, <<"s", "u", "b">>},
     {<<"l", ".", "c">>, <<"a", ".", "c">>, <<"b", "i", "g", ".", "c">>},
     {<<"a", ".", "c">>, <<"h", ".", "x">>}}

\* a path of a base commit that HEAD no longer has
DeletedFile == <<"g", ".", "c">>

\* f with the entries of g added (g wins)
Overlay(f, g) == g @@ f

\* RmTree as it would be were the workspace made with mkdtemp and never
\* removed
RmTreeLeak(f) == f

\* TemporaryDirectory.__exit__: shutil.rmtree of the workspace
RmTree(f) ==
    LET keep == {p \in DOMAIN f : ~IsUnder(p, WorkDir)}
    IN [p \in keep |-> f[p]]

\* what `git init` leaves in the workspace
GitInitFs ==
    (PathJoin(WorkDir, <<".", "g", "i", "t">>) :> Dir)
    @@ (PathJoin(WorkDir, <<".", "g", "i", "t", "/", "H">>) :> File(23, <<<<"h">>>>))

\* the proper prefixes of a path below the workspace: its parent directories
ParentDirs(p) == {SubSeq(p, 1, n) : n \in (Len(WorkDir) + 1)..(Len(p) - 1)}

\* what `git checkout FETCH_HEAD` materialises for the tree `names`
CheckoutFs(names) ==
    LET paths == {PathJoin(WorkDir, n) : n \in names}
        dirs == UNION {ParentDirs(p) : p \in paths}
    IN [p \in paths \cup dirs |->
          IF p \in paths
          THEN RepoFiles[CHOOSE n \in names : PathJoin(WorkDir, n) = p]
          ELSE Dir]

Exists(f, p) == p \in DOMAIN f

IsFile(f, p) == p \in DOMAIN f /\ f[p].kind = "file"

IsDir(f, p) == p \in DOMAIN f /\ f[p].kind = "dir"

\* path.rglob("*"): every entry below path
RGlob(f, path) == {p \in DOMAIN f : IsUnder(p, path) /\ p # path}

RECURSIVE SumSizes(_, _)
SumSizes(f, ps) ==
    IF ps = {} THEN 0
    ELSE LET p == CHOOSE q \in ps : TRUE
         IN f[p].size + SumSizes(f, ps \ {p})

\* du_mb(path) * 1024 * 1024: the bytes of the regular files below path
DuBytes(f, path) == SumSizes(f, {p \in RGlob(f, path) : IsFile(f, p)})

\* RepoTooLarge as it would be were the size taken of shallow_clone's unused
\* repo_dir = workdir / "repo", which nothing creates
RepoTooLargeRepoDir(f, path) ==
    DuBytes(f, PathJoin(path, <<"r", "e", "p", "o">>)) > MAX_REPO_SIZE_MB * MiB

\* size_mb > MAX_REPO_SIZE_MB, with size_mb = bytes / (1024 * 1024)
RepoTooLarge(f, path) == DuBytes(f, path) > MAX_REPO_SIZE_MB * MiB

-----------------------------------------------------------------------------
(* Relevance finder *)

\* RelevantFile(path, score, lines, snippets); score in units of 0.5
RelevantFile(path, score, lines, snippets) ==
    [path |-> path, score |-> score, lines |-> lines, snippets |-> snippets]

\* is_text_code_file
is_text_code_file(p) == Lower(Suffix(p)) \notin BINARY_EXTS

\* read_lines_safe: [] for a file over max_bytes and for anything that
\* cannot be stat'ed or opened (absent, a directory)
read_lines_safe(f, p) ==
    IF ~IsFile(f, p) THEN <<>>
    ELSE IF f[p].size > MiB THEN <<>>
    ELSE f[p].lines

\* kw_re.search(line): some escaped keyword occurs in the line, ignoring case
KwSearch(line, keywords) ==
    \E k \in 1..Len(keywords) : Contains(Lower(line), Lower(keywords[k]))

\* the 1-based numbers of the matching lines, ascending
RECURSIVE MatchesFrom(_, _, _)
MatchesFrom(lines, keywords, i) ==
    IF i > Len(lines) THEN <<>>
    ELSE (IF KwSearch(lines[i], keywords) THEN <<i>> ELSE <<>>)
         \o MatchesFrom(lines, keywords, i + 1)

Matches(lines, keywords) == MatchesFrom(lines, keywords, 1)

\* the Snippet keyword_score builds for a match at line i (path set later)
SnippetAt(lines, i, path) ==
    LET start == Max(1, i - SNIPPET_CONTEXT)
        end == Min(Len(lines), i + SNIPPET_CONTEXT)
    IN [path |-> path, start_line |-> start, end_line |-> end,
        preview |-> SubSeq(lines, start, end)]

\* keyword_score; the caller's `for s in snippets: s.path = rel` is folded in
keyword_score(lines, keywords, rel) ==
    IF lines = <<>> \/ keywords = <<>> THEN [score |-> 0, snippets |-> <<>>]
    ELSE LET matches == Matches(lines, keywords)
             shown == SubSeq(matches, 1, Min(MAX_SNIPPETS, Len(matches)))
         IN [score |-> 2 * Len(matches),
             snippets |-> [j \in 1..Len(shown) |->
                             SnippetAt(lines, shown[j], rel)]]

\* `if score > 0`
ScoreKept(score) == score > 0

\* the body of `for p in candidates` for one candidate: the RelevantFile it
\* appends, as a list of zero or one element
ScoreCandidate(f, repo_dir, p, keywords) ==
    LET rel == RelPosix(p, repo_dir)
        lines == read_lines_safe(f, p)
        kw == keyword_score(lines, keywords.val, rel)
        base == IF Truthy(keywords) THEN kw.score ELSE 2
        score == IF ~Truthy(keywords) /\ Lower(Suffix(p)) \in DEFAULT_INCLUDE_EXTS
                 THEN base + 1 ELSE base
    IN IF \E i \in 1..Len(p) : p[i] \in SKIP_DIRS THEN <<>>
       ELSE IF lines = <<>> THEN <<>>
       ELSE IF ScoreKept(score)
       THEN <<RelevantFile(rel, score, Len(lines),
                           IF Truthy(keywords) THEN kw.snippets ELSE <<>>)>>
       ELSE <<>>

RECURSIVE ScoreAll(_, _, _, _)
ScoreAll(f, repo_dir, candidates, keywords) ==
    IF candidates = <<>> THEN <<>>
    ELSE ScoreCandidate(f, repo_dir, Head(candidates), keywords)
         \o ScoreAll(f, repo_dir, Tail(candidates), keywords)

\* KeyLess as it would be with the key (-r.score, r.lines): no path tie-break
KeyLessNoPath(a, b) ==
    \/ a.score > b.score
    \/ a.score = b.score /\ a.lines < b.lines

\* the sort key (-r.score, r.lines, r.path), compared as Python compares tuples
KeyLess(a, b) ==
    \/ a.score > b.score
    \/ a.score = b.score /\ a.lines < b.lines
    \/ a.score = b.score /\ a.lines = b.lines /\ StrLess(a.path, b.path)

\* one element put into a sorted list behind every element not after it
RECURSIVE InsertSorted(_, _)
InsertSorted(sorted, r) ==
    IF sorted = <<>> THEN <<r>>
    ELSE IF KeyLess(r, Head(sorted)) THEN <<r>> \o sorted
    ELSE <<Head(sorted)>> \o InsertSorted(Tail(sorted), r)

\* list.sort(key=...): a stable sort
RECURSIVE SortResults(_)
SortResults(rs) ==
    IF rs = <<>> THEN <<>>
    ELSE InsertSorted(SortResults(SubSeq(rs, 1, Len(rs) - 1)), rs[Len(rs)])

\* Truncate as it would be with results[:max_files + 1]
TruncateOffByOne(rs, max_files) == SubSeq(rs, 1, Min(max_files + 1, Len(rs)))

\* results[:max_files]
Truncate(rs, max_files) == SubSeq(rs, 1, Min(max_files, Len(rs)))

\* every order in which the elements of S may be listed
RECURSIVE Orders(_)
Orders(S) ==
    IF S = {} THEN {<<>>}
    ELSE UNION {{<<x>> \o o : o \in Orders(S \ {x})} : x \in S}

\* the entries the walk of collect_relevant appends to candidates: every
\* entry of rglob that is no directory and passes is_text_code_file
WalkFiles(f, repo_dir) ==
    {p \in RGlob(f, repo_dir) : ~IsDir(f, p) /\ is_text_code_file(p)}

\* the candidates list of collect_relevant: the changed paths below the
\* snapshot root when changed_only is truthy, otherwise the walk's files in
\* the order rglob yielded them (walk)
Candidates(repo_dir, changed_only, walk) ==
    IF Truthy(changed_only)
    THEN [i \in 1..Len(changed_only.val) |->
            PathJoin(repo_dir, changed_only.val[i])]
    ELSE walk

\* collect_relevant up to, not including, the sort
collect_results(f, repo_dir, keywords, changed_only, walk) ==
    ScoreAll(f, repo_dir, Candidates(repo_dir, changed_only, walk), keywords)

-----------------------------------------------------------------------------
(* Requests and responses *)

\* ReviewRequest, as far as the handlers read it.  repo_url is an HttpUrl
\* that only_https restricts to https.
ReviewRequests ==
    [scheme : {"https"},
     base_ref : {None, Some(<<"m">>)},
     keywords : {None, Some(<<>>), Some(<<<<"t">>>>), Some(<<<<"z">>, <<"x">>>>)},
     max_files : 1..MaxCap,
     snippet_radius : {1, 5},
     path : {<<>>},
     max_bytes : {0}]

\* FileRequest: repo_url is any HttpUrl, http included
FileRequests ==
    [scheme : {"https", "http"},
     base_ref : {None},
     keywords : {None},
     max_files : {0},
     snippet_radius : {0},
     path : {<<"a", ".", "c">>,
             <<"i", ".", "g", "z">>,
             <<"s", "u", "b">>,
             <<"g", ".", "c">>,
             <<".", ".", "/", "s">>,
             <<".", ".", "/", "n">>,
             <<".", ".", "/", "w", "x", "/", "s">>,
             <<"/", "t", "/", "s">>},
     max_bytes : {5, 200000}]

NoRequest ==
    [scheme |-> "https", base_ref |-> None, keywords |-> None, max_files |-> 0,
     snippet_radius |-> 0, path |-> <<>>, max_bytes |-> 0]

NoResponse ==
    [status |-> 0, detail |-> "", text |-> <<>>, mode |-> "",
     changed_files |-> None, relevant |-> <<>>, content |-> <<>>]

\* HTTPException(status, detail): detail is a fixed message followed by text
HTTPException(status, detail, text) ==
    [NoResponse EXCEPT !.status = status, !.detail = detail, !.text = text]

\* ReviewResponse
ReviewResponse(mode, changed, relevant) ==
    [NoResponse EXCEPT !.status = 200, !.mode = mode,
                       !.changed_files = changed, !.relevant = relevant]

\* the dict get_file returns
FileResponse(content) == [NoResponse EXCEPT !.status = 200, !.content = content]

-----------------------------------------------------------------------------
(* run() *)

RunOutcomes == {"ok", "nonzero", "timeout"}

\* what a failing git may write to stderr
Stderrs == {<<>>, <<" ">>, <<"a">>, <<"b", " ">>}

\* run as it would be without the raise behind p.kill(): the killed process's
\* non-zero return code is handed back
runNoRaise(cmd, outcome, stderr) ==
    [cmd |-> cmd,
     timeout |-> GIT_TIMEOUT,
     outcome |-> outcome,
     killed |-> outcome = "timeout",
     raised |-> FALSE,
     code |-> IF outcome = "ok" THEN 0 ELSE 1,
     stderr |-> IF outcome = "nonzero" THEN stderr ELSE <<>>]

\* run(cmd): the process either ends within the timeout (returncode zero or
\* not, stderr captured) or is killed at the timeout, and then run raises
\* HTTPException(504)
run(cmd, outcome, stderr) ==
    [cmd |-> cmd,
     timeout |-> GIT_TIMEOUT,
     outcome |-> outcome,
     killed |-> outcome = "timeout",
     raised |-> outcome = "timeout",
     code |-> IF outcome = "ok" THEN 0 ELSE 1,
     stderr |-> IF outcome = "nonzero" THEN stderr ELSE <<>>]

Timeout504 == HTTPException(504, "Command timed out", <<>>)

\* FetchDetail as it would be with err.strip() or err2.strip()
FetchDetailFirst(e, e2) == IF Strip(e) # <<>> THEN Strip(e) ELSE Strip(e2)

\* the detail text of shallow_clone's "Cannot fetch ref":
\* err2.strip() or err.strip()
FetchDetail(e, e2) == IF Strip(e2) # <<>> THEN Strip(e2) ELSE Strip(e)

-----------------------------------------------------------------------------
(* The state machine *)

Init ==
    /\ pc = "idle"
    /\ endpoint = "none"
    /\ req = NoRequest
    /\ fs = HostFs
    /\ remote = {}
    /\ steps = <<>>
    /\ err = <<>>
    /\ err2 = <<>>
    /\ changed_files = None
    /\ results = <<>>
    /\ response = NoResponse

\* entering a handler: `with tempfile.TemporaryDirectory(...) as tmp`
Enter(ep, r) ==
    /\ pc = "idle"
    /\ pc' = "init"
    /\ endpoint' = ep
    /\ req' = r
    /\ fs' = Overlay(fs, WorkDir :> Dir)
    /\ remote' = {}
    /\ steps' = <<>>
    /\ err' = <<>>
    /\ err2' = <<>>
    /\ changed_files' = None
    /\ results' = <<>>
    /\ response' = NoResponse

\* POST /v1/review
review == \E r \in ReviewRequests : Enter("review", r)

\* POST /v1/file
get_file == \E r \in FileRequests : Enter("file", r)

\* an exception leaves the `with` block: the workspace is removed and the
\* request ends with the exception
Raise(exc) ==
    /\ pc' = "done"
    /\ fs' = RmTree(fs)
    /\ response' = exc

\* shallow_clone: validate_https_repo, then `git init`
GitInit ==
    /\ pc = "init"
    /\ UNCHANGED <<endpoint, req, remote, err, err2, changed_files, results>>
    /\ IF req.scheme # "https"
       THEN /\ Raise(HTTPException(400, "repo_url must be HTTPS", <<>>))
            /\ UNCHANGED steps
       ELSE \E o \in RunOutcomes :
              LET r == run("init", o, <<"e">>) IN
              /\ steps' = Append(steps, r)
              /\ IF r.raised THEN Raise(Timeout504)
                 ELSE IF r.code # 0
                 THEN Raise(HTTPException(500, "git init failed", Strip(r.stderr)))
                 ELSE /\ pc' = "remote_add"
                      /\ fs' = Overlay(fs, GitInitFs)
                      /\ UNCHANGED response

\* shallow_clone: `git remote add origin <repo_url>`
GitRemoteAdd ==
    /\ pc = "remote_add"
    /\ UNCHANGED <<endpoint, req, remote, err, err2, changed_files, results>>
    /\ \E o \in RunOutcomes :
         LET r == run("remote_add", o, <<"e">>) IN
         /\ steps' = Append(steps, r)
         /\ IF r.raised THEN Raise(Timeout504)
            ELSE IF r.code # 0
            THEN Raise(HTTPException(400, "Invalid repo_url or permissions",
                                     Strip(r.stderr)))
            ELSE /\ pc' = "fetch"
                 /\ UNCHANGED <<fs, response>>

\* shallow_clone: `git fetch --depth 1 --no-tags origin <ref>`
GitFetch ==
    /\ pc = "fetch"
    /\ UNCHANGED <<endpoint, req, remote, err2, changed_files, results>>
    /\ \E o \in RunOutcomes, e \in Stderrs :
         LET r == run("fetch", o, e) IN
         /\ steps' = Append(steps, r)
         /\ IF r.raised THEN Raise(Timeout504) /\ UNCHANGED err
            ELSE /\ err' = r.stderr
                 /\ pc' = IF r.code # 0 THEN "fetch_alt" ELSE "checkout"
                 /\ UNCHANGED <<fs, response>>

\* shallow_clone: the retry `git fetch ... origin refs/heads/<ref>`
GitFetchAlt ==
    /\ pc = "fetch_alt"
    /\ UNCHANGED <<endpoint, req, remote, err, changed_files, results>>
    /\ \E o \in RunOutcomes, e \in Stderrs :
         LET r == run("fetch_alt", o, e) IN
         /\ steps' = Append(steps, r)
         /\ IF r.raised THEN Raise(Timeout504) /\ UNCHANGED err2
            ELSE /\ err2' = r.stderr
                 /\ IF r.code # 0
                    THEN Raise(HTTPException(400, "Cannot fetch ref",
                                             FetchDetail(err, r.stderr)))
                    ELSE /\ pc' = "checkout"
                         /\ UNCHANGED <<fs, response>>

\* where the handler goes on once shallow_clone has returned
AfterClone ==
    IF endpoint = "file" THEN "read_file"
    ELSE IF Truthy(req.base_ref) THEN "base_fetch"
    ELSE "collect"

\* shallow_clone: `git checkout FETCH_HEAD` and the size check behind it
GitCheckout ==
    /\ pc = "checkout"
    /\ UNCHANGED <<endpoint, req, err, err2, changed_files, results>>
    /\ \E o \in RunOutcomes, tree \in Trees :
         LET r == run("checkout", o, <<"e">>)
             after == Overlay(fs, CheckoutFs(tree))
         IN
         /\ steps' = Append(steps, r)
         /\ IF r.raised THEN Raise(Timeout504) /\ UNCHANGED remote
            ELSE IF r.code # 0
            THEN /\ Raise(HTTPException(500, "git checkout failed", Strip(r.stderr)))
                 /\ UNCHANGED remote
            ELSE /\ remote' = tree
                 /\ IF RepoTooLarge(after, WorkDir)
                    THEN Raise(HTTPException(413, "Repository too large", <<>>))
                    ELSE /\ pc' = AfterClone
                         /\ fs' = after
                         /\ UNCHANGED response

\* review: the best-effort `git fetch ... origin <base_ref>`; its return code
\* is ignored and `except HTTPException: pass` swallows its timeout
BaseFetch ==
    /\ pc = "base_fetch"
    /\ UNCHANGED <<endpoint, req, fs, remote, err, err2, changed_files, results,
                   response>>
    /\ \E o \in RunOutcomes :
         /\ steps' = Append(steps, run("base_fetch", o, <<"e">>))
         /\ pc' = "diff"

\* the paths of a set in the order git prints them (ascending)
RECURSIVE SortedPaths(_)
SortedPaths(S) ==
    IF S = {} THEN <<>>
    ELSE LET m == CHOOSE x \in S : \A y \in S \ {x} : StrLess(x, y)
         IN <<m>> \o SortedPaths(S \ {m})

\* the stdout lines `git diff --name-only base..HEAD` may print for a tree:
\* paths of the tree and of a file the base had and HEAD has not
DiffOutputs(tree) ==
    {SortedPaths(c) : c \in {d \in SUBSET (tree \cup {DeletedFile}) :
                                Cardinality(d) <= MaxChanged}}

\* diff_changed_files: [p for p in out.splitlines() if p.strip()]
DiffLines(out) == SelectSeq(out, LAMBDA p : Strip(p) # <<>>)

\* review: changed_files = diff_changed_files(repo_dir, base_ref, "HEAD")
Diff ==
    /\ pc = "diff"
    /\ UNCHANGED <<endpoint, req, remote, err, err2, results>>
    /\ \E o \in RunOutcomes, out \in DiffOutputs(remote) :
         LET r == run("diff", o, <<"e">>) IN
         /\ steps' = Append(steps, r)
         /\ IF r.raised THEN Raise(Timeout504) /\ UNCHANGED changed_files
            ELSE IF r.code # 0
            THEN /\ Raise(HTTPException(400, "git diff failed", Strip(r.stderr)))
                 /\ UNCHANGED changed_files
            ELSE /\ changed_files' = Some(DiffLines(out))
                 /\ pc' = "collect"
                 /\ UNCHANGED <<fs, response>>

\* review's mode: "diff" once the base_ref branch was taken
Mode == IF Truthy(req.base_ref) THEN "diff" ELSE "keywords"

\* review: collect_relevant, the ReviewResponse, and the end of the `with`
Collect ==
    /\ pc = "collect"
    /\ UNCHANGED <<endpoint, req, remote, steps, err, err2, changed_files>>
    /\ \E walk \in (IF Truthy(changed_files) THEN {<<>>}
                    ELSE Orders(WalkFiles(fs, WorkDir))) :
         LET rs == collect_results(fs, WorkDir, req.keywords, changed_files, walk)
         IN
         /\ results' = rs
         /\ response' = ReviewResponse(Mode, changed_files,
                                       Truncate(SortResults(rs), req.max_files))
    /\ fs' = RmTree(fs)
    /\ pc' = "done"

\* get_file after shallow_clone: locate, check and read the file
ReadFile ==
    /\ pc = "read_file"
    /\ UNCHANGED <<endpoint, req, remote, steps, err, err2, changed_files, results>>
    /\ LET target == Resolve(PathJoin(WorkDir, req.path)) IN
       Raise(IF ~Exists(fs, target) \/ ~IsFile(fs, target)
             THEN HTTPException(404, "File not found at ref", <<>>)
             ELSE IF ~StartsWith(PathStr(target), PathStr(Resolve(WorkDir)))
             THEN HTTPException(400, "Path traversal detected", <<>>)
             ELSE IF Lower(Suffix(target)) \in BINARY_EXTS
             THEN HTTPException(415, "Binary files are not supported", <<>>)
             ELSE IF fs[target].size > req.max_bytes
             THEN HTTPException(413, "File too large", <<>>)
             ELSE FileResponse(fs[target].lines))

\* the response has been sent: the worker is free for the next request
Return ==
    /\ pc = "done"
    /\ pc' = "idle"
    /\ endpoint' = "none"
    /\ req' = NoRequest
    /\ remote' = {}
    /\ steps' = <<>>
    /\ err' = <<>>
    /\ err2' = <<>>
    /\ changed_files' = None
    /\ results' = <<>>
    /\ response' = NoResponse
    /\ UNCHANGED fs

Next ==
    \/ review
    \/ get_file
    \/ GitInit
    \/ GitRemoteAdd
    \/ GitFetch
    \/ GitFetchAlt
    \/ GitCheckout
    \/ BaseFetch
    \/ Diff
    \/ Collect
    \/ ReadFile
    \/ Return

Spec == Init /\ [][Next]_vars

-----------------------------------------------------------------------------
(* Properties *)

\* the request has returned
Done == pc = "done"

\* the review request has returned a ReviewResponse
Reviewed == Done /\ endpoint = "review" /\ response.status = 200

\* the workspace, or something below it, exists
WorkspaceExists == \E p \in DOMAIN fs : IsUnder(p, WorkDir)

\* whether step i of the log is a run of cmd with the given outcome
StepIs(i, cmd, outcome) == steps[i].cmd = cmd /\ steps[i].outcome = outcome

LastStep == steps[Len(steps)]

\* C1: when a review or file-fetch request has returned, on whatever exit
\* path, its workspace no longer exists; none exists between requests either.
C1_WorkspaceReclaimed == pc \in {"done", "idle"} => ~WorkspaceExists

\* C1 witness: a file fetch rejected for path traversal, after the snapshot
\* was checked out into the workspace, has returned and the workspace is gone
C1_Witness ==
    /\ Done
    /\ endpoint = "file"
    /\ response.detail = "Path traversal detected"
    /\ Len(steps) > 0 /\ LastStep.cmd = "checkout"
    /\ ~WorkspaceExists

\* C2: a review with base_ref whose name-only diff succeeded with an empty
\* list answers mode "diff", changed_files [] and relevant []
C2_EmptyDiffNoFallback ==
    (Reviewed /\ Truthy(req.base_ref) /\ changed_files = Some(<<>>))
        => /\ response.mode = "diff"
           /\ response.changed_files = Some(<<>>)
           /\ response.relevant = <<>>

\* A before B in (score descending, line_count ascending, path ascending)
RanksBefore(A, B) ==
    \/ A.score > B.score
    \/ A.score = B.score /\ A.lines < B.lines
    \/ A.score = B.score /\ A.lines = B.lines /\ StrLess(A.path, B.path)

\* the elements of a sequence
Range(s) == {s[i] : i \in 1..Len(s)}

\* C3: in every review response each entry of the ranked list ranks strictly
\* before the next one, and ranking the same scored files listed in any other
\* order gives the same sequence
C3_RankedSorted ==
    Reviewed =>
        /\ \A i \in 1..(Len(response.relevant) - 1) :
             RanksBefore(response.relevant[i], response.relevant[i + 1])
        /\ \A o \in Orders(Range(results)) :
             SortResults(o) = SortResults(results)

\* C3 witness: a response holding two files of equal score and equal line
\* count, ordered by path
C3_Witness ==
    /\ Reviewed
    /\ \E i \in 1..(Len(response.relevant) - 1) :
         /\ response.relevant[i].score = response.relevant[i + 1].score
         /\ response.relevant[i].lines = response.relevant[i + 1].lines
         /\ StrLess(response.relevant[i].path, response.relevant[i + 1].path)

\* C4: the returned list has at most max_files entries, none with a score of
\* 0 or less, and it is the head of the ranking: every scored file left out
\* ranks behind every file returned
C4_CappedPositive ==
    Reviewed =>
        /\ Len(response.relevant) <= req.max_files
        /\ Len(response.relevant) = Min(req.max_files, Len(results))
        /\ \A i \in 1..Len(response.relevant) :
             /\ response.relevant[i].score > 0
             /\ response.relevant[i] \in Range(results)
        /\ \A r \in Range(results) \ Range(response.relevant) :
             \A e \in Range(response.relevant) : RanksBefore(e, r)

\* C4 witness: keywords were given, more files scored above 0 than the cap
\* allows, and the response holds exactly max_files of them
C4_Witness ==
    /\ Reviewed
    /\ Truthy(req.keywords)
    /\ Len(results) > req.max_files
    /\ Len(response.relevant) = req.max_files

\* C5: every snippet of a review response is the window of the requested
\* radius r around its match m in a file of n lines: start_line =
\* max(1, m - r), end_line = min(n, m + r), inside the file and at most 2r long
C5_SnippetRadius ==
    Reviewed =>
        \A i \in 1..Len(response.relevant) :
            LET file == response.relevant[i]
                n == file.lines
                r == req.snippet_radius
                ms == Matches(RepoFiles[file.path].lines, req.keywords.val)
            IN \A j \in 1..Len(file.snippets) :
                 LET s == file.snippets[j]
                     m == ms[j]
                 IN /\ s.start_line = Max(1, m - r)
                    /\ s.end_line = Min(n, m + r)
                    /\ 1 <= s.start_line /\ s.start_line <= s.end_line
                    /\ s.end_line <= n
                    /\ s.end_line - s.start_line <= 2 * r

\* the commands whose timeout has to fail the request
AllCommands ==
    {"init", "remote_add", "fetch", "fetch_alt", "checkout", "base_fetch", "diff"}

\* every run of a command in cmds was given the configured timeout, and one
\* that exceeded it was killed, is the last step of the request, and the
\* request has failed with the timeout error
TimeoutFails(cmds) ==
    \A i \in 1..Len(steps) :
        steps[i].cmd \in cmds =>
            /\ steps[i].timeout = GIT_TIMEOUT
            /\ steps[i].outcome = "timeout" =>
                 /\ steps[i].killed
                 /\ i = Len(steps)
                 /\ Done
                 /\ response.status = 504
                 /\ response.relevant = <<>>

\* C6 as stated: the timeout of any command, the base-ref pre-fetch
\* included, fails the request with the timeout error and ends the pipeline
C6_EveryTimeoutFails == TimeoutFails(AllCommands)

\* C6 amended: that holds of every command but the base-ref pre-fetch; a
\* pre-fetch that exceeds the timeout is killed too, but its timeout error is
\* swallowed and the name-only diff is the next step
C6_TimeoutFailsButBaseFetch ==
    /\ TimeoutFails(AllCommands \ {"base_fetch"})
    /\ \A i \in 1..Len(steps) :
         steps[i].cmd = "base_fetch" =>
            /\ steps[i].timeout = GIT_TIMEOUT
            /\ steps[i].outcome = "timeout" => steps[i].killed
            /\ IF i = Len(steps) THEN pc = "diff" /\ response = NoResponse
               ELSE steps[i + 1].cmd = "diff"

\* C6 witness: the pre-fetch timed out, the diff ran and timed out as well,
\* and the request failed with the timeout error
C6_Witness ==
    /\ Done
    /\ response.status = 504
    /\ \E i \in 1..(Len(steps) - 1) :
         StepIs(i, "base_fetch", "timeout") /\ StepIs(i + 1, "diff", "timeout")

\* a step whose failure ends the request: any failure of init, remote add,
\* the fallback fetch, checkout or diff, and a timed-out literal fetch (its
\* non-zero exit leads to the fallback); never the base-ref pre-fetch
Fatal(s) ==
    \/ s.cmd \in {"init", "remote_add", "fetch_alt", "checkout", "diff"}
       /\ s.outcome # "ok"
    \/ s.cmd = "fetch" /\ s.outcome = "timeout"

\* the bytes of a checked-out tree together with git's own files
SnapshotBytes(tree) ==
    DuBytes(Overlay(GitInitFs, CheckoutFs(tree)), WorkDir)

\* the checkout succeeded on a tree over the size ceiling
Oversized ==
    /\ Len(steps) > 0
    /\ \E i \in 1..Len(steps) : StepIs(i, "checkout", "ok")
    /\ SnapshotBytes(remote) > MAX_REPO_SIZE_MB * MiB

\* C7: a failed step is the last step of its request: the request has
\* failed, nothing was collected or scored and no ranked list is returned; a
\* snapshot over the ceiling fails with RepositoryTooLarge right after the
\* checkout, and a failed diff fails with the diff error
C7_FailureStopsPipeline ==
    /\ \A i \in 1..Len(steps) :
         Fatal(steps[i]) =>
            /\ i = Len(steps)
            /\ Done
            /\ response.status \notin {0, 200}
            /\ results = <<>> /\ response.relevant = <<>>
            /\ StepIs(i, "diff", "nonzero") =>
                 response.status = 400 /\ response.detail = "git diff failed"
    /\ Oversized =>
         /\ LastStep.cmd = "checkout"
         /\ Done
         /\ response.status = 413
         /\ response.detail = "Repository too large"
         /\ results = <<>> /\ response.relevant = <<>>

\* C7 witness: a review whose snapshot is over the ceiling has failed with
\* RepositoryTooLarge and nothing was scored
C7_Witness ==
    /\ Done
    /\ endpoint = "review"
    /\ Oversized
    /\ response.status = 413
    /\ results = <<>>

\* the file fetch got as far as locating the file: shallow_clone returned
Located ==
    /\ Done
    /\ endpoint = "file"
    /\ Len(steps) > 0
    /\ LastStep.cmd = "checkout" /\ LastStep.outcome = "ok"
    /\ response.detail # "Repository too large"

\* C8: a file fetch whose path resolves outside the snapshot root fails with
\* the PathTraversal error and returns no content, whether or not anything
\* exists there; containment is decided part by part on the resolved path
C8_TraversalRejected ==
    (Located /\ ~IsUnder(Resolve(PathJoin(WorkDir, req.path)), Resolve(WorkDir)))
        => /\ response.status = 400
           /\ response.detail = "Path traversal detected"
           /\ response.content = <<>>

\* the fetch discipline of snapshot acquisition: the literal fetch and the
\* fallback fetch run at most once each, the fallback only right after a
\* literal fetch that exited non-zero, and the checkout only right after a
\* fetch that succeeded
FetchDiscipline ==
    /\ \A i, j \in 1..Len(steps) :
         (steps[i].cmd = steps[j].cmd /\ steps[i].cmd \in {"fetch", "fetch_alt"})
            => i = j
    /\ \A i \in 1..Len(steps) :
         /\ steps[i].cmd = "fetch_alt" => i > 1 /\ StepIs(i - 1, "fetch", "nonzero")
         /\ steps[i].cmd = "checkout" =>
              /\ i > 1
              /\ steps[i - 1].cmd \in {"fetch", "fetch_alt"}
              /\ steps[i - 1].outcome = "ok"

\* both fetches ran and exited non-zero
BothFetchesFailed ==
    /\ Len(steps) > 1
    /\ StepIs(Len(steps) - 1, "fetch", "nonzero")
    /\ StepIs(Len(steps), "fetch_alt", "nonzero")

\* C9 as stated: the fetch discipline, and when both fetches fail the request
\* fails with the resolution error whose text carries the error output of
\* both attempts
C9_BothErrorsCarried ==
    /\ FetchDiscipline
    /\ BothFetchesFailed =>
         /\ Done
         /\ response.status = 400 /\ response.detail = "Cannot fetch ref"
         /\ Contains(response.text, Strip(err))
         /\ Contains(response.text, Strip(err2))

\* C9 amended: the text is the stripped error output of the second attempt,
\* or that of the first attempt when the second's is empty
C9_OneErrorCarried ==
    /\ FetchDiscipline
    /\ BothFetchesFailed =>
         /\ Done
         /\ response.status = 400 /\ response.detail = "Cannot fetch ref"
         /\ response.text = IF Strip(err2) = <<>> THEN Strip(err) ELSE Strip(err2)

\* C9 witness: both fetches failed, each with its own error output
C9_Witness ==
    /\ Done
    /\ BothFetchesFailed
    /\ Strip(err) # <<>> /\ Strip(err2) # <<>> /\ Strip(err) # Strip(err2)

\* C10: with a non-empty change set nothing but changed paths is scored, and
\* without keywords every changed path that is a regular file of the
\* snapshot under the per-file ceiling is in the result before truncation,
\* with score 1.0 or 1.5, whatever directory it is in (stated here for files
\* of at least one line only, so that a violation is about the directory)
C10_ChangedAllScored ==
    (Reviewed /\ Truthy(changed_files)) =>
        /\ \A r \in Range(results) : r.path \in Range(changed_files.val)
        /\ ~Truthy(req.keywords) =>
             \A p \in Range(changed_files.val) :
                (/\ p \in remote
                 /\ RepoFiles[p].kind = "file"
                 /\ RepoFiles[p].size <= MiB
                 /\ RepoFiles[p].lines # <<>>)
                    => \E r \in Range(results) : r.path = p /\ r.score \in {2, 3}

=============================================================================
